---- MODULE Spec2Model ----
(***************************************************************************)
(* Land-cover / DEM map service (src/app.py): the module-level Earth       *)
(* Engine initialisation and the three data endpoints of the Flask         *)
(* application, GET /get_states, GET /get_districts/<state_name> and       *)
(* POST /generate_map_data.                                                *)
(*                                                                         *)
(* Encodings.  A Python string that the code parses (a histogram key) is   *)
(* a sequence of one-character strings.  An area in square kilometres is   *)
(* the integer number of hundredths it holds (5.0 is 500, 0.12 is 12):     *)
(* round(x, 2) always returns such a value.  Python's None is the value    *)
(* None below.  The Earth Engine service is the environment: what it       *)
(* returns (or that it raises) is an input of each action.                 *)
(***************************************************************************)
EXTENDS Integers, Sequences, FiniteSets, TLC

VARIABLES
    phase,                 \* "startup" while the module body runs, then "serving"
    INDIA_DIST_FC,         \* module globals set by lines 13-40
    DYNAMIC_WORLD,
    SRTM_DEM_90M,
    HYDROSHEDS_RIVERS_FC,
    JRC_GSW,
    STATES_LIST,
    India_Dist,            \* the remote asset users/sachinbobbili/India_Dist
    request,               \* the request being answered, with what the remote service did
    response,              \* the answer to it
    steps,                 \* the region operations generate_map_data ran for it
    label_histogram,       \* remote: the 'label' histogram of the current 60-day window
    prev,                  \* history: the previous POST /generate_map_data and its answer
    at_startup             \* history: how lines 13-40 ended and the globals they set

vars == <<phase, INDIA_DIST_FC, DYNAMIC_WORLD, SRTM_DEM_90M, HYDROSHEDS_RIVERS_FC,
          JRC_GSW, STATES_LIST, India_Dist, label_histogram, request, response, steps,
          prev, at_startup>>

globals == <<INDIA_DIST_FC, DYNAMIC_WORLD, SRTM_DEM_90M, HYDROSHEDS_RIVERS_FC,
             JRC_GSW, STATES_LIST>>

None == "<None>"

(***************************************************************************)
(* Bounds of the model.                                                    *)
(***************************************************************************)
\* the most entries a histogram drawn in SpecChart holds
MaxClasses == 3
\* the tile URLs the remote service can mint for one layer
MaxMint == 2

(***************************************************************************)
(* Chart data generation (lines 259-279).                                  *)
(***************************************************************************)
Digits == <<"0", "1", "2", "3", "4", "5", "6", "7", "8", "9">>

DigitValues ==
    "0" :> 0 @@ "1" :> 1 @@ "2" :> 2 @@ "3" :> 3 @@ "4" :> 4 @@
    "5" :> 5 @@ "6" :> 6 @@ "7" :> 7 @@ "8" :> 8 @@ "9" :> 9

IsDigit(c) == c \in DOMAIN DigitValues

DigitValue(c) == DigitValues[c]

RECURSIVE Pow10(_)
Pow10(n) == IF n = 0 THEN 1 ELSE 10 * Pow10(n - 1)

RECURSIVE DigitsValue(_)
DigitsValue(s) ==
    IF s = <<>> THEN 0
    ELSE 10 * DigitsValue(SubSeq(s, 1, Len(s) - 1)) + DigitValue(s[Len(s)])

\* float(k) of a decimal literal "ddd" or "ddd.ddd": the value mant / 10^exp,
\* or a ValueError for anything else.
float(k) ==
    LET dots == {i \in 1..Len(k) : k[i] = "."}
        dot  == IF dots = {} THEN Len(k) + 1 ELSE CHOOSE i \in dots : TRUE
        ip   == SubSeq(k, 1, dot - 1)
        fp   == SubSeq(k, dot + 1, Len(k))
    IN  IF /\ Cardinality(dots) <= 1
           /\ Len(ip) + Len(fp) > 0
           /\ \A i \in 1..Len(k) : i \in dots \/ IsDigit(k[i])
        THEN [ok |-> TRUE, mant |-> DigitsValue(ip \o fp), exp |-> Len(fp)]
        ELSE [ok |-> FALSE, mant |-> 0, exp |-> 0]

\* int(x) of a non-negative float: truncation
int(x) == x.mant \div Pow10(x.exp)

\* class_value of line 272
int_float(k) == int(float(k))

\* key=lambda k: int(float(k)) (line 269)
sort_key(k) == int(float(k))

\* dw_label_to_name (lines 263-266)
dw_label_to_name ==
    <<"Water", "Trees", "Grass", "Flooded vegetation", "Crops",
      "Shrub and scrub", "Built", "Bare", "Snow and ice">>

\* faulty variant: the table stops at code 7
label_name_strict(class_value) ==
    IF class_value \in 0..7 THEN dw_label_to_name[class_value + 1]
    ELSE "Class " \o ToString(class_value)

\* dw_label_to_name.get(class_value, f'Class {class_value}') (line 276)
label_name(class_value) ==
    IF class_value \in 0..8 THEN dw_label_to_name[class_value + 1]
    ELSE "Class " \o ToString(class_value)

\* sign of (the double nearest to n/d) - n/d, for 0 < n: the binary long
\* division of n by d, cut after the 53 significant bits a double holds.
RECURSIVE DoubleError(_, _, _, _)
DoubleError(r, d, sig, lastbit) ==
    IF sig = 53 THEN
        IF r = 0 THEN 0
        ELSE IF 2 * r < d THEN -1
        ELSE IF 2 * r > d THEN 1
        ELSE IF lastbit = 0 THEN -1 ELSE 1
    ELSE IF r = 0 THEN 0
    ELSE LET bit == (2 * r) \div d
         IN  DoubleError((2 * r) % d, d, IF sig > 0 \/ bit = 1 THEN sig + 1 ELSE 0, bit)

RECURSIVE BitLength(_)
BitLength(n) == IF n = 0 THEN 0 ELSE 1 + BitLength(n \div 2)

\* n / d as Python computes it for an int n and the float d: sign of the
\* error of the quotient (the integer part of these quotients is far below 2^53)
TrueDivError(n, d) == DoubleError(n % d, d, BitLength(n \div d), (n \div d) % 2)

\* faulty variant: the quotient is truncated to two decimals, not rounded
area_sqkm_floor(pixel_count) == (pixel_count * 100 * 100) \div 1000000

\* faulty variant: a pixel is taken for 1000 sq m (pixel_count / 10 sq km)
area_sqkm_wrong_scale(pixel_count) == pixel_count * 10

\* round((pixel_count * 100) / 1e6, 2) (line 274), in hundredths: the hundredth
\* nearest to the double quotient, an exact tie going to the even hundredth
area_sqkm(pixel_count) ==
    LET n    == pixel_count * 100
        d    == 1000000
        low  == (n * 100) \div d
        rest == (n * 100) % d
    IN  IF 2 * rest < d THEN low
        ELSE IF 2 * rest > d THEN low + 1
        ELSE LET e == TrueDivError(n, d)
             IN  IF e < 0 THEN low
                 ELSE IF e > 0 THEN low + 1
                 ELSE IF low % 2 = 0 THEN low ELSE low + 1

\* sorted(keys, key=sort_key): the key of each element is computed once, and
\* the sort is stable (an element goes after those of an equal key)
RECURSIVE InsertByKey(_, _)
InsertByKey(e, s) ==
    IF s = <<>> THEN <<e>>
    ELSE IF e[1] < s[1][1] THEN <<e>> \o s
    ELSE <<s[1]>> \o InsertByKey(e, Tail(s))

RECURSIVE SortDecorated(_)
SortDecorated(s) ==
    IF s = <<>> THEN <<>>
    ELSE InsertByKey(s[Len(s)], SortDecorated(SubSeq(s, 1, Len(s) - 1)))

sorted(s) ==
    LET decorated == [i \in 1..Len(s) |-> <<sort_key(s[i]), s[i]>>]
        ordered   == SortDecorated(decorated)
    IN  [i \in 1..Len(s) |-> ordered[i][2]]

\* histogram.keys(): the keys in the dict's order
keys(histogram) == [i \in 1..Len(histogram.items) |-> histogram.items[i].key]

\* histogram[key]
getitem(histogram, key) ==
    histogram.items[CHOOSE i \in 1..Len(histogram.items) : histogram.items[i].key = key].count

\* faulty variant: the keys are taken in the dict's order
sorted_keys_unsorted(histogram) == keys(histogram)

\* line 269
sorted_keys(histogram) == sorted(keys(histogram))

\* faulty variant: chart_labels lives at module level and keeps the labels of
\* the answer before
stale_chart_labels ==
    IF "chart_data" \in DOMAIN response.body THEN response.body.chart_data.labels ELSE <<>>

\* chart_labels = [] (line 259)
new_chart_labels == <<>>

\* lines 259-279: the chart lists, or the exception the block raises
ChartData(histogram) ==
    IF histogram.kind = "None"
    THEN [raised |-> "AttributeError"]
    ELSE IF \E i \in 1..Len(histogram.items) : ~float(histogram.items[i].key).ok
    THEN [raised |-> "ValueError"]
    ELSE LET ks == sorted_keys(histogram)
         IN  [raised |-> None,
              chart_labels |->
                  new_chart_labels \o [i \in 1..Len(ks) |-> label_name(int_float(ks[i]))],
              chart_values |->
                  [i \in 1..Len(ks) |->
                      area_sqkm(getitem(histogram, ks[i]))]]

(***************************************************************************)
(* The remote service: the boundary asset, the histogram of the land-cover *)
(* mosaic over the requested district, the tile URLs it mints.             *)
(***************************************************************************)
Feature(st, dt, lon, lat) == [stname |-> st, dtname |-> dt, centroid |-> <<lon, lat>>]

\* the contents the boundary asset may have: nothing, or three features of
\* which two carry the same (stname, dtname)
BoundaryDatasets ==
    { <<>>,
      << Feature("Kerala", "Idukki", 77, 10),
         Feature("Goa", "North Goa", 74, 15),
         Feature("Kerala", "Idukki", 76, 9) >> }

\* the names above in sort() order
NameOrder == <<"Goa", "Idukki", "Kerala", "North Goa">>

\* fc.aggregate_array(prop).distinct().sort().getInfo()
aggregate_distinct_sorted(fc, prop) ==
    SelectSeq(NameOrder, LAMBDA n : \E i \in 1..Len(fc) : fc[i][prop] = n)

\* the decimal literal of a class code, as "N" or as "N.0"
RECURSIVE Decimal(_)
Decimal(n) == IF n < 10 THEN <<Digits[n + 1]>> ELSE Decimal(n \div 10) \o <<Digits[(n % 10) + 1]>>

ClassKey(code, fmt) == IF fmt = "N.0" THEN Decimal(code) \o <<".", "0">> ELSE Decimal(code)

Dict(items) == [kind |-> "dict", items |-> items]

NoneHistogram == [kind |-> "None"]

\* the histograms of the sample behaviours: none at all (every pixel masked),
\* an empty one, the one of the specification's example, and one holding an
\* unrecognized class and the 50000-pixel count
SampleHistograms ==
    { NoneHistogram,
      Dict(<<>>),
      Dict(<< [key |-> ClassKey(3, "N.0"), count |-> 10],
              [key |-> ClassKey(0, "N.0"), count |-> 5],
              [key |-> ClassKey(8, "N.0"), count |-> 2] >>),
      Dict(<< [key |-> ClassKey(9, "N"), count |-> 50000],
              [key |-> ClassKey(1, "N"), count |-> 51] >>) }

\* The histograms SpecChart draws: every class code 0..10 alone, and every
\* ordering of at most MaxClasses distinct codes among MixedCodes; the keys
\* all written "N" or all written "N.0"; the counts taken in turn from
\* PixelCounts, starting anywhere (a count that rounds down, one that rounds
\* up, 0.015 whose double lies below it, the exact tie 0.125, and 50000).
ClassCodes == 0..10

MixedCodes == {0, 3, 8, 9, 10}

PixelCounts == <<0, 51, 150, 1250, 50000>>

\* orderings of at most n distinct codes of MixedCodes
RECURSIVE CodeSeqs(_)
CodeSeqs(n) ==
    IF n = 0 THEN {<<>>}
    ELSE LET shorter == CodeSeqs(n - 1)
         IN  shorter \cup
             {Append(s, c) : s \in {t \in shorter : Len(t) = n - 1}, c \in MixedCodes}

AllHistograms ==
    { Dict([i \in 1..Len(cs) |->
               [key   |-> ClassKey(cs[i], fmt),
                count |-> PixelCounts[((r + i) % Len(PixelCounts)) + 1]]])
      : cs \in {<<c>> : c \in ClassCodes} \cup
               {t \in CodeSeqs(MaxClasses) : \A i, j \in 1..Len(t) : i # j => t[i] # t[j]},
        fmt \in {"N", "N.0"},
        r \in 1..Len(PixelCounts) }

\* image.getMapId(vis)['tile_fetcher'].url_format: a freshly minted URL
getMapId(image, mint) == [image |-> image, mapid |-> mint]

(***************************************************************************)
(* Responses.                                                              *)
(***************************************************************************)
\* return jsonify(body), status
jsonify(body, status) == [status |-> status, body |-> body, uncaught |-> FALSE]

\* an exception that leaves the view function: Flask answers 500 itself
Uncaught(exc) ==
    [status |-> 500, body |-> [html |-> "Internal Server Error", exception |-> exc],
     uncaught |-> TRUE]

NoRequest == [endpoint |-> "none"]

NoResponse == [status |-> 0, body |-> [none |-> TRUE], uncaught |-> FALSE]

\* the previous POST /generate_map_data, once the current request is answered
History ==
    IF request.endpoint = "generate_map_data"
    THEN [request |-> request, response |-> response]
    ELSE prev

(***************************************************************************)
(* Module-level initialisation (lines 13-40).                              *)
(***************************************************************************)
StartupFailures == {"none", "Initialize", "getInfo"}

Startup(failure) ==
    /\ phase = "startup"
    /\ phase' = "serving"
    /\ IF failure = "none"
       THEN /\ INDIA_DIST_FC' = "users/sachinbobbili/India_Dist"
            /\ DYNAMIC_WORLD' = "GOOGLE/DYNAMICWORLD/V1"
            /\ SRTM_DEM_90M' = "CGIAR/SRTM90_V4"
            /\ HYDROSHEDS_RIVERS_FC' = "WWF/HydroSHEDS/v1/FreeFlowingRivers"
            /\ JRC_GSW' = "JRC/GSW1_4/GlobalSurfaceWater"
            /\ STATES_LIST' = aggregate_distinct_sorted(India_Dist, "stname")
       ELSE /\ INDIA_DIST_FC' = None
            /\ DYNAMIC_WORLD' = None
            /\ SRTM_DEM_90M' = None
            /\ HYDROSHEDS_RIVERS_FC' = None
            /\ JRC_GSW' = None
            /\ STATES_LIST' = <<>>
    /\ at_startup' = [failed |-> failure # "none", globals |-> globals']
    /\ UNCHANGED <<India_Dist, label_histogram, request, response, steps, prev>>

(***************************************************************************)
(* GET /get_states (lines 131-136).                                        *)
(***************************************************************************)
\* faulty variant: the test is "STATES_LIST is None", which [] never is
get_states_response_is_none == jsonify([states |-> STATES_LIST], 200)

get_states_response ==
    IF STATES_LIST = <<>>
    THEN jsonify([error |-> "States data not available. Check EE connection or asset path."],
                 500)
    ELSE jsonify([states |-> STATES_LIST], 200)

get_states ==
    /\ phase = "serving"
    /\ request' = [endpoint |-> "get_states"]
    /\ response' = get_states_response
    /\ steps' = <<>>
    /\ UNCHANGED <<phase, globals, India_Dist, label_histogram, at_startup>>

(***************************************************************************)
(* GET /get_districts/<state_name> (lines 138-149).                        *)
(***************************************************************************)
StateNames == {"Kerala", "Goa", "Atlantis"}

filter_eq(fc, prop, value) == SelectSeq(fc, LAMBDA f : f[prop] = value)

get_districts_response(state_name, remote_fails) ==
    IF INDIA_DIST_FC = None
    THEN jsonify([error |-> "EE asset for districts is not loaded."], 500)
    ELSE IF remote_fails
    THEN jsonify([error |-> "EEException"], 500)
    ELSE jsonify([districts |->
                    aggregate_distinct_sorted(filter_eq(India_Dist, "stname", state_name),
                                              "dtname")], 200)

get_districts(state_name, remote_fails) ==
    /\ phase = "serving"
    /\ request' = [endpoint |-> "get_districts", state_name |-> state_name,
                   remote |-> [fail |-> INDIA_DIST_FC # None /\ remote_fails]]
    /\ response' = get_districts_response(state_name, remote_fails)
    /\ steps' = <<>>
    /\ UNCHANGED <<phase, globals, India_Dist, label_histogram, at_startup>>

(***************************************************************************)
(* POST /generate_map_data (lines 151-300).                                *)
(***************************************************************************)
\* the JSON bodies of the requests: objects carrying any of the two fields
\* (a field may be the empty string), the JSON null and a JSON array
FieldValues ==
    [state |-> {"Kerala"}, district |-> {"", "Idukki", "Atlantis"}]

JsonObjects ==
    UNION { { f \in [S -> {"", "Kerala", "Idukki", "Atlantis"}] :
                \A k \in S : f[k] \in FieldValues[k] }
            : S \in SUBSET {"state", "district"} }

Bodies ==
    {[kind |-> "object", fields |-> f] : f \in JsonObjects}
        \cup {[kind |-> "null"], [kind |-> "array"]}

\* data.get(field) on the dict get_json() returned
get(data, field) == IF field \in DOMAIN data.fields THEN data.fields[field] ELSE None

\* not v, for a string or None
not(v) == v = None \/ v = ""

\* line 161
missing_state_or_district(state, district) == not(state) \/ not(district)

\* line 165
all_assets ==
    \A asset \in {INDIA_DIST_FC, DYNAMIC_WORLD, SRTM_DEM_90M, HYDROSHEDS_RIVERS_FC, JRC_GSW} :
        asset # None

\* lines 170-173
district_fc(state, district) ==
    filter_eq(filter_eq(India_Dist, "stname", state), "dtname", district)

\* faulty variant: the size check never fires
is_empty_never(size) == FALSE

\* line 176
is_empty(size) == size = 0

\* district_fc.first(): null for an empty collection
first(fc) == IF fc = <<>> THEN [null |-> TRUE] ELSE fc[1]

\* the region operations of lines 180-257 in program order; those from
\* "landcover_url" on call the remote service, the first three only build
\* client-side objects
RegionOps ==
    <<"first", "geometry", "layers", "landcover_url", "dem_url", "slope_url", "rivers_url",
      "gsw_url", "boundary_url", "centroid", "histogram">>

RemoteOps == {RegionOps[i] : i \in 4..Len(RegionOps)}

\* what the remote service does for one request: it fails at one of its
\* calls, or it answers them all and mints the tile URLs
RemoteFailures == {"size"} \cup RemoteOps

RemoteOutcomes(mints) ==
    {[fail |-> f, mint |-> 0] : f \in RemoteFailures}
        \cup {[fail |-> "none", mint |-> m] : m \in mints}

\* the remote service raises at op: it fails there, or it is asked to
\* evaluate the geometry of a null feature
raises(op, fc, fail) == fail = op \/ (fc = <<>> /\ op = "landcover_url")

\* the operations run: all of them, or those up to the first that raises
region_ops_run(fc, fail) ==
    LET bad == {i \in 1..Len(RegionOps) : raises(RegionOps[i], fc, fail)}
    IN  IF bad = {} THEN RegionOps
        ELSE SubSeq(RegionOps, 1, CHOOSE i \in bad : \A j \in bad : i <= j)

\* faulty variant: the status of line 300 is left out
except_response_no_status(state, district, e) ==
    jsonify([error |-> <<"Map data generation failed", e>>], 200)

\* lines 298-300
except_response(state, district, e) ==
    jsonify([error |-> <<"Map data generation failed", e>>], 500)

\* faulty variant: the [lon, lat] pair is passed on as it came
center_unswapped(centroid) == <<centroid[1], centroid[2]>>

\* 'center' of line 289 from the [lon, lat] pair of line 244
center(centroid) == <<centroid[2], centroid[1]>>

\* lines 282-296
success_response(fc, mint, chart) ==
    jsonify([landcover_url |-> getMapId("landcover_clipped", mint),
             dem_url       |-> getMapId("dem_clipped", mint),
             slope_url     |-> getMapId("slope_clipped", mint),
             rivers_url    |-> getMapId("rivers_painted", mint),
             gsw_url       |-> getMapId("gsw_clipped", mint),
             boundary_url  |-> getMapId("boundary_image", mint),
             center        |-> center(first(fc).centroid),
             zoom          |-> 9,
             chart_data    |-> [labels |-> chart.chart_labels,
                                values |-> chart.chart_values],
             status        |-> "success"], 200)

\* lines 168-300: the answer and the region operations run
try_block(state, district, fail, mint) ==
    LET fc == district_fc(state, district)
    IN  IF fail = "size"
        THEN [response |-> except_response(state, district, "EEException: size"),
              steps |-> <<"size">>]
        ELSE IF is_empty(Len(fc))
        THEN [response |-> jsonify([error |-> "District not found in the dataset."], 404),
              steps |-> <<"size">>]
        ELSE LET ran  == region_ops_run(fc, fail)
                 last == ran[Len(ran)]
             IN  IF raises(last, fc, fail)
                 THEN [response |-> except_response(state, district,
                                                    "EEException: " \o last),
                       steps |-> <<"size">> \o ran]
                 ELSE LET chart == ChartData(label_histogram)
                      IN  [response |->
                               IF chart.raised # None
                               THEN except_response(state, district, chart.raised)
                               ELSE success_response(fc, mint, chart),
                           steps |-> <<"size">> \o ran]

\* lines 157-300
generate_map_data_result(body, fail, mint) ==
    IF body.kind # "object"
    THEN [response |-> Uncaught("AttributeError"), steps |-> <<>>]
    ELSE LET state    == get(body, "state")
             district == get(body, "district")
         IN  IF missing_state_or_district(state, district)
             THEN [response |-> jsonify([error |-> "Missing state or district"], 400),
                   steps |-> <<>>]
             ELSE IF ~all_assets
             THEN [response |->
                       jsonify([error |-> "Earth Engine assets not loaded. Check server logs for EE initialization errors."], 500),
                   steps |-> <<>>]
             ELSE try_block(state, district, fail, mint)

\* what the remote service did for the request: only what it was asked
consumed(ran, fail, mint) ==
    LET asked(op) == \E i \in 1..Len(ran) : ran[i] = op
    IN  [fail      |-> IF asked(fail) THEN fail ELSE "none",
         mint      |-> IF asked("landcover_url") /\ fail # "landcover_url" THEN mint ELSE 0,
         histogram |-> IF asked("histogram") /\ fail # "histogram"
                       THEN label_histogram ELSE [kind |-> "not asked"]]

generate_map_data(body, remote) ==
    /\ phase = "serving"
    /\ LET out == generate_map_data_result(body, remote.fail, remote.mint)
       IN  /\ request' = [endpoint |-> "generate_map_data", body |-> body,
                          remote |-> consumed(out.steps, remote.fail, remote.mint)]
           /\ response' = out.response
           /\ steps' = out.steps
    /\ UNCHANGED <<phase, globals, India_Dist, label_histogram, at_startup>>

(***************************************************************************)
(* The environment: the 60-day window ending "now" (lines 184-191) moves,  *)
(* and the mosaic it selects changes with it.                              *)
(***************************************************************************)
WindowMoves(histogram) ==
    /\ phase = "serving"
    /\ histogram # label_histogram
    /\ label_histogram' = histogram
    /\ UNCHANGED <<phase, globals, India_Dist, request, response, steps, prev, at_startup>>

(***************************************************************************)
(* The service: startup, then any requests.                                *)
(***************************************************************************)
Init ==
    /\ phase = "startup"
    /\ INDIA_DIST_FC = None
    /\ DYNAMIC_WORLD = None
    /\ SRTM_DEM_90M = None
    /\ HYDROSHEDS_RIVERS_FC = None
    /\ JRC_GSW = None
    /\ STATES_LIST = <<>>
    /\ India_Dist \in BoundaryDatasets
    /\ label_histogram \in SampleHistograms
    /\ request = NoRequest
    /\ response = NoResponse
    /\ steps = <<>>
    /\ prev = [request |-> NoRequest, response |-> NoResponse]
    /\ at_startup = [failed |-> FALSE, globals |-> globals]

Next ==
    \/ \E failure \in StartupFailures : Startup(failure)
    \/ get_states /\ prev' = History
    \/ \E state_name \in StateNames, remote_fails \in BOOLEAN :
           get_districts(state_name, remote_fails) /\ prev' = History
    \/ \E body \in Bodies, remote \in RemoteOutcomes(1..MaxMint) :
           generate_map_data(body, remote) /\ prev' = History
    \/ \E histogram \in SampleHistograms : WindowMoves(histogram)

Spec == Init /\ [][Next]_vars

(***************************************************************************)
(* The chart of one successful request, for every histogram up to          *)
(* MaxClasses classes: the service has started with its assets loaded and  *)
(* answers requests for a district of the dataset.                         *)
(***************************************************************************)
InitChart ==
    /\ phase = "serving"
    /\ INDIA_DIST_FC = "users/sachinbobbili/India_Dist"
    /\ DYNAMIC_WORLD = "GOOGLE/DYNAMICWORLD/V1"
    /\ SRTM_DEM_90M = "CGIAR/SRTM90_V4"
    /\ HYDROSHEDS_RIVERS_FC = "WWF/HydroSHEDS/v1/FreeFlowingRivers"
    /\ JRC_GSW = "JRC/GSW1_4/GlobalSurfaceWater"
    /\ India_Dist \in BoundaryDatasets \ {<<>>}
    /\ STATES_LIST = aggregate_distinct_sorted(India_Dist, "stname")
    /\ label_histogram \in AllHistograms
    /\ request = NoRequest
    /\ response = NoResponse
    /\ steps = <<>>
    /\ prev = [request |-> NoRequest, response |-> NoResponse]
    /\ at_startup = [failed |-> FALSE, globals |-> globals]

NextChart ==
    \E mint \in 1..MaxMint :
        /\ generate_map_data([kind |-> "object",
                              fields |-> [state |-> "Kerala", district |-> "Idukki"]],
                             [fail |-> "none", mint |-> mint])
        /\ UNCHANGED prev

SpecChart == InitChart /\ [][NextChart]_vars

(***************************************************************************)
(* Properties.                                                             *)
(***************************************************************************)
IsGenerate == request.endpoint = "generate_map_data"

IsObject == request.body.kind = "object"

\* the request carries no such field
FieldMissing(field) == ~IsObject \/ field \notin DOMAIN request.body.fields

\* the request carries the field, and not as the empty string
FieldGiven(field) == ~FieldMissing(field) /\ request.body.fields[field] # ""

\* the features of the boundary asset the request names
Matching ==
    SelectSeq(India_Dist,
              LAMBDA f : /\ f.stname = request.body.fields.state
                         /\ f.dtname = request.body.fields.district)

HasError == ~response.uncaught /\ "error" \in DOMAIN response.body

RanRegionOp == \E i \in 1..Len(steps), j \in 1..Len(RegionOps) : steps[i] = RegionOps[j]

\* the class code a histogram key is the decimal literal of
CodeOf(key) == CHOOSE c \in ClassCodes : key \in {ClassKey(c, "N"), ClassKey(c, "N.0")}

\* the place of an entry in ascending order of class code
Rank(histogram, i) ==
    1 + Cardinality({j \in 1..Len(histogram.items) :
                        CodeOf(histogram.items[j].key) < CodeOf(histogram.items[i].key)})

\* the request went through to the chart of the histogram the service returned
Charted == IsGenerate /\ response.status = 200 /\ request.remote.histogram.kind = "dict"

\* C1: a POST /generate_map_data lacking the state or the district field is
\* answered 400 with an error field, whatever the startup did, and never by
\* an uncaught exception.
C1_MissingFieldIs400 ==
    (IsGenerate /\ (FieldMissing("state") \/ FieldMissing("district")))
        => (response.status = 400 /\ HasError)

\* C1 restricted to the requests whose body is a JSON object: the part of it
\* the code meets.
C1_MissingFieldOfObjectIs400 ==
    (IsGenerate /\ IsObject /\ (FieldMissing("state") \/ FieldMissing("district")))
        => (response.status = 400 /\ HasError)

\* C2 as stated: both fields present, assets loaded and no feature of the
\* asset matching give 404 with an error field, and no region operation runs.
C2_NoMatchIs404 ==
    (/\ IsGenerate /\ ~FieldMissing("state") /\ ~FieldMissing("district")
     /\ all_assets /\ Matching = <<>>)
        => (response.status = 404 /\ HasError /\ ~RanRegionOp)

\* C2, amended: with both fields present and not empty, assets loaded and no
\* feature matching, the answer is 404 with an error field when the size
\* query is answered and 500 with an error field when the size query itself
\* fails; either way no later region operation runs.
C2_NoMatchIs404WhenSizeAnswered ==
    (/\ IsGenerate /\ FieldGiven("state") /\ FieldGiven("district")
     /\ all_assets /\ Matching = <<>>)
        => /\ steps = <<"size">>
           /\ ~RanRegionOp
           /\ HasError
           /\ response.status = IF request.remote.fail = "size" THEN 500 ELSE 404

C2_Witness ==
    /\ IsGenerate /\ FieldGiven("state") /\ FieldGiven("district")
    /\ all_assets /\ India_Dist # <<>> /\ Matching = <<>>
    /\ request.remote.fail = "none"
    /\ response.status = 404

DataEndpoints == {"get_states", "get_districts", "generate_map_data"}

\* C3 as stated: once the startup has failed, every request to a
\* data-dependent endpoint is answered 500, without a crash (read here on the
\* requests that carry no body or a JSON object, which line 158 can read).
C3_UnavailableIs500 ==
    (/\ phase = "serving" /\ at_startup.failed /\ request.endpoint \in DataEndpoints
     /\ IsGenerate => IsObject)
        => (response.status = 500 /\ ~response.uncaught)

\* C3, amended: once the startup has failed, for the rest of the process
\* lifetime every GET /get_states and GET /get_districts is answered 500 with
\* an error field, and so is every POST /generate_map_data whose JSON object
\* carries a non-empty state and district, before any remote call; a POST
\* whose JSON object lacks a field (or holds it empty) is answered 400.
C3_UnavailableIs500AfterValidation ==
    (phase = "serving" /\ at_startup.failed)
        => /\ request.endpoint \in {"get_states", "get_districts"}
                => (response.status = 500 /\ HasError)
           /\ (IsGenerate /\ IsObject)
                => /\ HasError
                   /\ steps = <<>>
                   /\ response.status =
                          IF FieldGiven("state") /\ FieldGiven("district") THEN 500 ELSE 400

C3_Witness ==
    /\ phase = "serving" /\ at_startup.failed
    /\ IsGenerate /\ FieldGiven("state") /\ FieldGiven("district")
    /\ response.status = 500
    /\ prev.request.endpoint = "generate_map_data"
    /\ prev.response.status = 400

\* C4: a remote failure at any tile-URL request, at the centroid fetch or at
\* the histogram reduction ends the request with one 500 answer that holds an
\* error and nothing else: no layer URL, center, chart_data or status.
C4_FailureDiscardsLayers ==
    (IsGenerate /\ request.remote.fail \in RemoteOps)
        => /\ response.status = 500
           /\ ~response.uncaught
           /\ DOMAIN response.body = {"error"}

C4_Witness ==
    /\ IsGenerate
    /\ request.remote.fail = "histogram"
    /\ \E i \in 1..Len(steps) : steps[i] = "boundary_url"
    /\ response.status = 500

SuccessKeys ==
    {"landcover_url", "dem_url", "slope_url", "rivers_url", "gsw_url", "boundary_url",
     "center", "zoom", "chart_data", "status"}

\* C5: a 200 answer of POST /generate_map_data means the region was resolved
\* and every remote call succeeded, and holds exactly the six URLs (each the
\* one minted for its layer), center = [lat, lon] of the first matching
\* feature's [lon, lat] centroid, zoom 9, chart_data with as many labels as
\* values, and status 'success'.
C5_SuccessPayload ==
    (IsGenerate /\ response.status = 200)
        => /\ request.remote.fail = "none"
           /\ request.remote.histogram.kind = "dict"
           /\ Matching # <<>>
           /\ steps = <<"size">> \o RegionOps
           /\ DOMAIN response.body = SuccessKeys
           /\ response.body.landcover_url = getMapId("landcover_clipped", request.remote.mint)
           /\ response.body.dem_url = getMapId("dem_clipped", request.remote.mint)
           /\ response.body.slope_url = getMapId("slope_clipped", request.remote.mint)
           /\ response.body.rivers_url = getMapId("rivers_painted", request.remote.mint)
           /\ response.body.gsw_url = getMapId("gsw_clipped", request.remote.mint)
           /\ response.body.boundary_url = getMapId("boundary_image", request.remote.mint)
           /\ response.body.center[1] = Matching[1].centroid[2]
           /\ response.body.center[2] = Matching[1].centroid[1]
           /\ response.body.zoom = 9
           /\ Len(response.body.chart_data.labels) = Len(response.body.chart_data.values)
           /\ response.body.status = "success"

C5_Witness ==
    /\ IsGenerate /\ response.status = 200
    /\ Len(Matching) = 2
    /\ Len(response.body.chart_data.labels) = 3

\* C6: the chart value of a class with pixel count p is p/10000 rounded to two
\* decimals: a whole number v of hundredths with |p - 100 v| <= 50; and
\* p = 50000 gives 5.0.
C6_AreaIsNearestHundredth ==
    Charted =>
        LET h == request.remote.histogram
        IN  \A i \in 1..Len(h.items) :
                LET p == h.items[i].count
                    v == response.body.chart_data.values[Rank(h, i)]
                IN  /\ v \in Nat
                    /\ p - 100 * v \in -50..50
                    /\ p = 50000 => v = 500

C6_Witness ==
    /\ Charted
    /\ \E i \in 1..Len(request.remote.histogram.items) :
           /\ request.remote.histogram.items[i].count = 50000
           /\ response.body.chart_data.values[Rank(request.remote.histogram, i)] = 500
    /\ \E i \in 1..Len(request.remote.histogram.items) :
           /\ request.remote.histogram.items[i].count = 51
           /\ response.body.chart_data.values[Rank(request.remote.histogram, i)] = 1

\* C7: chart_data has one entry per histogram key, in strictly ascending
\* order of class code whatever the order of the keys, and labels[i] and
\* values[i] belong to the same class.
C7_ChartAscendingByClass ==
    Charted =>
        LET h == request.remote.histogram
            c == response.body.chart_data
        IN  /\ Len(c.labels) = Len(h.items)
            /\ Len(c.values) = Len(h.items)
            /\ \A i \in 1..Len(h.items) :
                   /\ c.labels[Rank(h, i)] = label_name(CodeOf(h.items[i].key))
                   /\ c.values[Rank(h, i)] = area_sqkm(h.items[i].count)

C7_Witness ==
    /\ Charted
    /\ Len(request.remote.histogram.items) = 3
    /\ CodeOf(request.remote.histogram.items[1].key) = 10
    /\ CodeOf(request.remote.histogram.items[2].key) = 3
    /\ CodeOf(request.remote.histogram.items[3].key) = 8
    /\ response.body.chart_data.labels = <<"Flooded vegetation", "Snow and ice", "Class 10">>

ExampleHistogram ==
    Dict(<< [key |-> <<"3", ".", "0">>, count |-> 10],
            [key |-> <<"0", ".", "0">>, count |-> 5],
            [key |-> <<"8", ".", "0">>, count |-> 2] >>)

ExampleLabels == <<"Water", "Flooded vegetation", "Snow and ice">>

\* C8 as stated: the histogram {"3.0": 10, "0.0": 5, "8.0": 2} is charted as
\* labels [Water, Flooded vegetation, Snow and ice], values [0.5, 1.0, 0.2].
C8_ExampleValuesAsStated ==
    (Charted /\ request.remote.histogram = ExampleHistogram)
        => /\ response.body.chart_data.labels = ExampleLabels
           /\ response.body.chart_data.values = <<50, 100, 20>>

\* C8, amended: the histogram {"3.0": 10, "0.0": 5, "8.0": 2} is charted as
\* labels [Water, Flooded vegetation, Snow and ice], values [0.0, 0.0, 0.0]:
\* round(p * 100 / 1e6, 2) of 5, 10 and 2 pixels is 0.0.
C8_ExampleValuesAreZero ==
    (Charted /\ request.remote.histogram = ExampleHistogram)
        => /\ response.body.chart_data.labels = ExampleLabels
           /\ response.body.chart_data.values = <<0, 0, 0>>

C8_Witness ==
    /\ Charted /\ request.remote.histogram = ExampleHistogram
    /\ response.body.chart_data.values = <<0, 0, 0>>

TableNames ==
    <<"Water", "Trees", "Grass", "Flooded vegetation", "Crops", "Shrub and scrub",
      "Built", "Bare", "Snow and ice">>

\* C9: a class code 0..8 is labelled with its name of the lookup table, any
\* other code N is labelled "Class N", and the request still succeeds.
C9_UnknownClassIsLabelled ==
    (IsGenerate /\ request.remote.fail = "none"
       /\ request.remote.histogram.kind = "dict")
        => /\ response.status = 200
           /\ \A i \in 1..Len(request.remote.histogram.items) :
                  LET code == CodeOf(request.remote.histogram.items[i].key)
                  IN  response.body.chart_data.labels[Rank(request.remote.histogram, i)] =
                          IF code \in 0..8 THEN TableNames[code + 1]
                          ELSE "Class " \o ToString(code)

C9_Witness ==
    /\ Charted
    /\ \E i \in 1..Len(request.remote.histogram.items) :
           /\ CodeOf(request.remote.histogram.items[i].key) = 9
           /\ response.body.chart_data.labels[Rank(request.remote.histogram, i)] = "Class 9"
    /\ \E i \in 1..Len(request.remote.histogram.items) :
           /\ CodeOf(request.remote.histogram.items[i].key) = 8
           /\ response.body.chart_data.labels[Rank(request.remote.histogram, i)] =
                  "Snow and ice"

\* the answer but for its tile URLs
WithoutUrls(r) ==
    [status |-> r.status, uncaught |-> r.uncaught,
     body |-> [k \in DOMAIN r.body \ {"landcover_url", "dem_url", "slope_url", "rivers_url",
                                      "gsw_url", "boundary_url"} |-> r.body[k]]]

\* the same request met by the same remote data and failures
SameAsPrevious ==
    /\ IsGenerate
    /\ prev.request.endpoint = "generate_map_data"
    /\ prev.request.body = request.body
    /\ prev.request.remote.fail = request.remote.fail
    /\ prev.request.remote.histogram = request.remote.histogram

\* C10: no request changes the globals set at startup, and a POST
\* /generate_map_data that repeats the previous one against the same remote
\* data is answered with the same status, chart_data and center (all but the
\* tile URLs), whatever requests came in between.
C10_RepeatedRequestSameAnswer ==
    /\ phase = "serving" => globals = at_startup.globals
    /\ SameAsPrevious => WithoutUrls(response) = WithoutUrls(prev.response)

C10_Witness ==
    /\ SameAsPrevious
    /\ response.status = 200
    /\ prev.request.remote.mint # request.remote.mint
    /\ Len(response.body.chart_data.labels) = 3
    /\ response.body.landcover_url # prev.response.body.landcover_url
    /\ response.body.chart_data = prev.response.body.chart_data

====
